---- MODULE Spec2Model ----
(***************************************************************************)
(* A model of the Movie / Person / Director / Actor object model           *)
(* (m/Movie.mjs, m/Person.mjs, m/Director.mjs): constraint checks,         *)
(* validating setters, the movie <-> person association maintenance and    *)
(* the static collection operations add / update / destroy.                *)
(*                                                                         *)
(* JavaScript objects are references: person objects and their             *)
(* directedMovies / actedInMovies maps live in two heaps (objs, maps) and  *)
(* are named by addresses, so that an object that was dropped from its     *)
(* collection but is still referenced by a movie, or a clone that shares   *)
(* a map with its original, behaves as it does in the program.             *)
(***************************************************************************)
EXTENDS Integers, Sequences, FiniteSets, TLC

VARIABLES
  objs,        \* heap of person objects: address -> object
  maps,        \* heap of directedMovies / actedInMovies maps: address -> set of movie keys
  personInst,  \* Person.instances: person key -> address
  dirInst,     \* Director.instances: person key -> address
  actInst,     \* Actor.instances: person key -> address
  movieInst,   \* Movie.instances: movie key -> movie object
  moviesStore, \* localStorage["movies"]: NoItem or the stored records
  peopleStore, \* localStorage["people"]
  directorsStore, \* localStorage["directors"]
  actorsStore, \* localStorage["actors"]
  last         \* the last call: operation, arguments and how it ended

vars == <<objs, maps, personInst, dirInst, actInst, movieInst, moviesStore,
          peopleStore, directorsStore, actorsStore, last>>

(***************************************************************************)
(* JavaScript values.  n is the integer the value denotes, or an index     *)
(* that tells two values of the type apart.                                *)
(***************************************************************************)
Undef     == [t |-> "undefined", n |-> 0]
NaN       == [t |-> "NaN", n |-> 0]
Num(k)    == [t |-> "number", n |-> k]      \* the integer k
Half(k)   == [t |-> "float", n |-> k]       \* the number k + 0.5, k >= 0
NumStr(k) == [t |-> "numstr", n |-> k]      \* the decimal string of k
Text(k)   == [t |-> "text", n |-> k]        \* a non-numeric, non-blank string
Blank(k)  == [t |-> "blank", n |-> k]       \* 0: "",  1: " "
DateV(d)  == [t |-> "date", n |-> d]        \* a Date, as a day number
IsoDate(d) == [t |-> "isodate", n |-> d]    \* the ISO string of the Date d
Null      == [t |-> "null", n |-> 0]
ObjRef(k) == [t |-> "object", n |-> k]      \* an object whose personId is k
Arr1(k)   == [t |-> "array", n |-> k]       \* the array [k]

\* Text(LongTextIx) is a string of more than 120 characters.
LongTextIx == 9

\* !v
Falsy(v) ==
  \/ v.t \in {"undefined", "NaN", "null"}
  \/ v.t = "number" /\ v.n = 0
  \/ v.t = "blank" /\ v.n = 0

Truthy(v) == ~Falsy(v)

\* typeof v === "string"
IsString(v) == v.t \in {"numstr", "text", "blank", "isodate"}

\* v.trim() === ""
TrimsToEmpty(v) == v.t = "blank"

\* /^(?=.{0,120}$).*$/.test(v)
Within120(v) == ~(v.t = "text" /\ v.n = LongTextIx)

\* parseInt(v): a number, or NaN
parseInt(v) ==
  IF v.t \in {"number", "float", "numstr", "array"} THEN Num(v.n) ELSE NaN

\* String(v) as a key of a person collection: the decimal string of an
\* integer is modelled by the integer, every other key by NoKey (no person
\* is ever stored under such a key).
NoKey == -1
PKey(v) == IF v.t \in {"number", "numstr", "array"} /\ v.n >= 0 THEN v.n ELSE NoKey

\* String(v) as a key of Movie.instances.
MKey(v) == IF v.t \in {"number", "array"} THEN NumStr(v.n) ELSE v

(***************************************************************************)
(* Constraint violations (lib/errorTypes.mjs) and the other errors a call  *)
(* can end with.                                                           *)
(***************************************************************************)
NoViolation   == "NoConstraintViolation"
Mandatory     == "MandatoryValueConstraintViolation"
Range         == "RangeConstraintViolation"
Pattern       == "PatternConstraintViolation"
Uniqueness    == "UniquenessConstraintViolation"
RefIntegrity  == "ReferentialIntegrityConstraintViolation"
Frozen        == "FrozenValueConstraintViolation"
Interval      == "IntervalConstraintViolation"
Generic       == "ConstraintViolation"
TypeError     == "TypeError"
RefError      == "ReferenceError"

(***************************************************************************)
(* Heaps.  An address names the class, the key and a generation; a new     *)
(* object takes the first generation not in use, and an object no          *)
(* collection and no movie refers to is dropped.                           *)
(***************************************************************************)
NoRef == [c |-> "none", k |-> NoKey, g |-> 0]
Addr(c, k, g) == [c |-> c, k |-> k, g |-> g]

FreshGen(c, k, used) == CHOOSE g \in 0..Cardinality(used) :
                          /\ Addr(c, k, g) \notin used
                          /\ \A h \in 0..(g - 1) : Addr(c, k, h) \in used

NewAddr(c, k, used) == Addr(c, k, FreshGen(c, k, used))

Rng(f) == {f[x] : x \in DOMAIN f}
Restrict(f, S) == [x \in S |-> f[x]]
Put(f, k, v) == [x \in DOMAIN f \cup {k} |-> IF x = k THEN v ELSE f[x]]
Drop(f, k) == [x \in DOMAIN f \ {k} |-> f[x]]
EmptyFn == [x \in {} |-> 0]

(***************************************************************************)
(* Person (m/Person.mjs).  A check function is modelled by the name of the *)
(* violation it returns; TypeError and ReferenceError stand for a call     *)
(* that ends by throwing that error instead of returning.                  *)
(***************************************************************************)
checkPersonId(id) ==
  IF Falsy(id) THEN NoViolation
  ELSE LET p == parseInt(id)
       IN IF p = NaN \/ p.n < 1 THEN Range ELSE NoViolation

\* inst is DirectType.instances
checkPersonIdAsId(id, inst) ==
  LET p == parseInt(id)
  IN IF p = NaN THEN Mandatory
     ELSE LET r == checkPersonId(p)
          IN IF r = NoViolation
             THEN IF PKey(p) \in DOMAIN inst THEN Uniqueness ELSE NoViolation
             ELSE r

checkPersonIdAsIdRef(id, inst) ==
  LET r == checkPersonId(id)
  IN IF r = NoViolation /\ Truthy(id) /\ PKey(id) \notin DOMAIN inst
     THEN RefIntegrity ELSE r

\* PatternConstraintViolation is not among the imports of Person.mjs:
\* evaluating "new PatternConstraintViolation" throws a ReferenceError.
checkName(t) ==
  IF Falsy(t) THEN Mandatory
  ELSE IF ~IsString(t) \/ TrimsToEmpty(t) THEN Range
  ELSE IF ~Within120(t) THEN RefError
  ELSE NoViolation

checkAgent(id) ==
  IF Falsy(id) THEN NoViolation
  ELSE LET p == parseInt(id)
       IN IF p = NaN \/ p.n < 1 THEN Range ELSE NoViolation

\* new Person(slots), new Director(slots), new Actor(slots): the setters in
\* the constructor's order; the first violation is thrown.  mp is the
\* address of the object's directedMovies / actedInMovies map.
NewPerson(cls, slots, inst, mp) ==
  LET e1 == checkPersonIdAsId(slots.personId, inst)
      e2 == checkName(slots.name)
      e3 == IF Truthy(slots.agent) THEN checkAgent(slots.agent) ELSE NoViolation
      err == IF e1 # NoViolation THEN e1
             ELSE IF e2 # NoViolation THEN e2 ELSE e3
  IN [err |-> err,
      o   |-> [cls |-> cls,
               personId |-> parseInt(slots.personId).n,
               name |-> slots.name,
               agent |-> IF Truthy(slots.agent) THEN parseInt(slots.agent) ELSE Undef,
               mp |-> mp]]

(***************************************************************************)
(* The program state as one record, and its commit to the variables.       *)
(***************************************************************************)
World == [objs |-> objs, maps |-> maps, personInst |-> personInst,
          dirInst |-> dirInst, actInst |-> actInst, movieInst |-> movieInst,
          moviesStore |-> moviesStore, peopleStore |-> peopleStore,
          directorsStore |-> directorsStore, actorsStore |-> actorsStore]

NullMovie == [movieID |-> Undef, title |-> Undef, releaseDate |-> Undef,
              director |-> NoRef, actor |-> EmptyFn, category |-> Undef,
              tvSeriesName |-> Undef, episodeNo |-> Undef, about |-> Undef,
              isNull |-> TRUE]

\* The person objects a movie refers to.
MovieRefs(m) == (IF m.director = NoRef THEN {} ELSE {m.director}) \cup Rng(m.actor)

\* The objects reachable from the collections and the movies.
Live(w) ==
  Rng(w.personInst) \cup Rng(w.dirInst) \cup Rng(w.actInst)
    \cup UNION {MovieRefs(w.movieInst[k]) : k \in DOMAIN w.movieInst}

\* cls is the DirectType of a call of checkPersonIdAsId, "" for other calls.
LastRec(op, key, arg, err, upd) ==
  [op |-> op, key |-> key, arg |-> arg, err |-> err, upd |-> upd, cls |-> ""]

Commit(w, l) ==
  LET live == Live(w) \cap DOMAIN w.objs
      liveMaps == {w.objs[a].mp : a \in live} \cap DOMAIN w.maps
  IN /\ objs' = Restrict(w.objs, live)
     /\ maps' = Restrict(w.maps, liveMaps)
     /\ personInst' = w.personInst
     /\ dirInst' = w.dirInst
     /\ actInst' = w.actInst
     /\ movieInst' = w.movieInst
     /\ moviesStore' = w.moviesStore
     /\ peopleStore' = w.peopleStore
     /\ directorsStore' = w.directorsStore
     /\ actorsStore' = w.actorsStore
     /\ last' = l

(***************************************************************************)
(* Movie (m/Movie.mjs).                                                    *)
(***************************************************************************)
\* MovieCategoryEL = new Enumeration(["Tvseriesepisode","Biography"])
TVSERIESEPISODE == 1
BIOGRAPHY == 2
CategoryMAX == 2

\* Dates are day numbers counted from 1895-12-28.  new Date(1895, 12, 28)
\* has month index 12, which rolls over to January 1896: 1896-01-28.
YEAR_FIRST_MOVIE == 31
EpochDay == 27032
InvalidDate == [t |-> "invalidDate", n |-> 0]

\* new Date(y): DateV stands for a Date or a date string; a number is a
\* count of milliseconds from 1970-01-01 (small here: that day), null
\* counts as 0; another string is no date.
toDate(y) ==
  IF y.t = "date" THEN y
  ELSE IF y.t = "isodate" THEN DateV(y.n)
  ELSE IF y.t \in {"number", "float", "null"} THEN DateV(EpochDay)
  ELSE InvalidDate

\* lib/util.mjs
isIntegerOrIntegerString(x) == x.t \in {"number", "numstr"}

checkMovieID(movieID) ==
  IF Falsy(movieID) THEN NoViolation
  ELSE IF ~IsString(movieID) \/ TrimsToEmpty(movieID) THEN Range
  ELSE NoViolation

\* inst is Movie.instances
checkMovieIDAsId(movieID, inst) ==
  LET r == checkMovieID(movieID)
  IN IF r = NoViolation
     THEN IF Falsy(movieID) THEN Mandatory
          ELSE IF MKey(movieID) \in DOMAIN inst THEN Uniqueness
          ELSE NoViolation
     ELSE r

checkTitle(t) ==
  IF Falsy(t) THEN Mandatory
  ELSE IF ~IsString(t) \/ TrimsToEmpty(t) THEN Range
  ELSE IF ~Within120(t) THEN Pattern
  ELSE NoViolation

\* IntervalConstraintViolation is not among the imports of Movie.mjs:
\* evaluating "new IntervalConstraintViolation" throws a ReferenceError.
checkReleaseDate(y) ==
  IF Falsy(y) THEN Mandatory
  ELSE LET d == toDate(y)
       IN IF d.t = "date" /\ d.n < YEAR_FIRST_MOVIE THEN RefError
          ELSE NoViolation

\* inst is Person.instances
checkDirector(director_id, inst) ==
  IF Falsy(director_id) THEN NoViolation
  ELSE checkPersonIdAsIdRef(director_id, inst)

checkActor(person_id, inst) ==
  IF Falsy(person_id) THEN NoViolation
  ELSE checkPersonIdAsIdRef(person_id, inst)

checkCategory(c) ==
  IF c = Undef THEN NoViolation
  ELSE IF \/ ~isIntegerOrIntegerString(c)
          \/ parseInt(c).n < 1
          \/ parseInt(c).n > CategoryMAX THEN Range
  ELSE NoViolation

checkTvSeriesName(t) ==
  IF Falsy(t) THEN Mandatory
  ELSE IF ~IsString(t) \/ TrimsToEmpty(t) THEN Range
  ELSE NoViolation

\* checkEpisodeNo without the test that forbids an episode number outside
\* the TV series episodes.
checkEpisodeNo_unguarded(sA, c) ==
  LET cat == parseInt(c)
  IN IF cat = Num(TVSERIESEPISODE) /\ Falsy(sA) THEN Mandatory
     ELSE IF Truthy(sA) /\ (~isIntegerOrIntegerString(sA) \/ parseInt(sA).n < 1)
          THEN Range
     ELSE NoViolation

checkEpisodeNo(sA, c) ==
  LET cat == parseInt(c)
  IN IF cat = Num(TVSERIESEPISODE) /\ Falsy(sA) THEN Mandatory
     ELSE IF cat # Num(TVSERIESEPISODE) /\ Truthy(sA) THEN Generic
     ELSE IF Truthy(sA) /\ (~isIntegerOrIntegerString(sA) \/ parseInt(sA).n < 1)
          THEN Range
     ELSE NoViolation

checkAbout(a, c) ==
  LET cat == parseInt(c)
  IN IF cat = Num(BIOGRAPHY) /\ Falsy(a) THEN Mandatory
     ELSE IF cat # Num(BIOGRAPHY) /\ Truthy(a) THEN Generic
     ELSE IF Truthy(a) /\ (~IsString(a) \/ TrimsToEmpty(a)) THEN Range
     ELSE NoViolation

(***************************************************************************)
(* The setters.  A setter takes and returns a record                       *)
(*   [w: the program state, m: the movie object, err: how it ended]        *)
(* and does nothing once err is a violation: the exception has left the    *)
(* constructor or the update.  What a setter did before it threw stays.    *)
(***************************************************************************)
Ok(st) == st.err = NoViolation
Throw(st, e) == [st EXCEPT !.err = e]
WithMaps(st, mp) == [st EXCEPT !.w.maps = mp]

\* The setters without the entry they make in the person's map.
MapAdd_none(mp, a, key) == mp

\* delete obj.directedMovies[key], obj.actedInMovies[key] = key
MapDel(mp, a, key) == [mp EXCEPT ![a] = @ \ {key}]
MapAdd(mp, a, key) == [mp EXCEPT ![a] = @ \cup {key}]

set_movieID(st, movieID) ==
  LET r == checkMovieIDAsId(movieID, st.w.movieInst)
  IN IF r = NoViolation THEN [st EXCEPT !.m.movieID = movieID]
     ELSE Throw(st, r)

set_title(st, t) ==
  LET r == checkTitle(t)
  IN IF r = NoViolation THEN [st EXCEPT !.m.title = t] ELSE Throw(st, r)

set_releaseDate(st, y) ==
  LET r == checkReleaseDate(y)
  IN IF r = NoViolation THEN [st EXCEPT !.m.releaseDate = toDate(y)]
     ELSE Throw(st, r)

\* set director without the removal of the movie's ID from the map of the
\* director it had.
Undirected_kept(st) == st.w.maps

\* this._director.directedMovies without the movie's ID, if a director is set
Undirected(st) ==
  IF st.m.director = NoRef THEN st.w.maps
  ELSE MapDel(st.w.maps, st.w.objs[st.m.director].mp, MKey(st.m.movieID))

set_director(st, p) ==
  IF Falsy(p)
  THEN [WithMaps(st, Undirected(st)) EXCEPT !.m.director = NoRef]
  ELSE LET director_id == IF p.t \in {"array", "object"} THEN Num(p.n) ELSE p
           k == PKey(director_id)
           removed == WithMaps(st, Undirected(st))
       IN IF k \notin DOMAIN st.w.dirInst
          THEN Throw([removed EXCEPT !.m.director = NoRef], TypeError)
          ELSE LET d == st.w.dirInst[k]
               IN [WithMaps(removed,
                            MapAdd(removed.w.maps, st.w.objs[d].mp, MKey(st.m.movieID)))
                     EXCEPT !.m.director = d]

addPerson(st, a) ==
  LET person_id == IF a.t = "object" THEN Num(a.n) ELSE parseInt(a)
      k == PKey(person_id)
  IN IF Falsy(person_id) THEN st
     ELSE IF k \notin DOMAIN st.w.actInst THEN Throw(st, TypeError)
     ELSE LET o == st.w.actInst[k]
          IN [WithMaps(st, MapAdd(st.w.maps, st.w.objs[o].mp, MKey(st.m.movieID)))
                EXCEPT !.m.actor = Put(@, k, o)]

removePerson(st, a) ==
  LET person_id == IF a.t = "object" THEN Num(a.n) ELSE parseInt(a)
      k == PKey(person_id)
  IN IF Falsy(person_id) THEN st
     ELSE IF k \notin DOMAIN st.m.actor THEN Throw(st, TypeError)
     ELSE [WithMaps(st, MapDel(st.w.maps, st.w.objs[st.m.actor[k]].mp,
                               MKey(st.m.movieID)))
             EXCEPT !.m.actor = Drop(@, k)]

RECURSIVE addPersons(_, _, _)
addPersons(st0, ids, i) ==
  CHOOSE r \in {IF i > Len(ids) \/ ~Ok(st) THEN st
                ELSE addPersons(addPerson(st, ids[i]), ids, i + 1) : st \in {st0}} : TRUE

\* An actor slot is [t: "undefined" | "array" | "map", ids: the elements,
\* or the map's values in key order].  Object.keys(undefined) throws.
NoActors == [t |-> "undefined", ids |-> <<>>]
ActorArray(ids) == [t |-> "array", ids |-> ids]
ActorMap(ids) == [t |-> "map", ids |-> ids]

set_actor(st, a) ==
  LET cleared == [st EXCEPT !.m.actor = EmptyFn]
  IN IF a.t = "undefined" THEN Throw(cleared, TypeError)
     ELSE addPersons(cleared, a.ids, 1)

\* set category without the test for a category that is already set.
set_category_unfrozen(st, c) ==
  LET r == checkCategory(c)
  IN IF r = NoViolation THEN [st EXCEPT !.m.category = parseInt(c)]
     ELSE Throw(st, r)

set_category(st, c) ==
  LET r == IF Truthy(st.m.category) THEN Frozen ELSE checkCategory(c)
  IN IF r = NoViolation THEN [st EXCEPT !.m.category = parseInt(c)]
     ELSE Throw(st, r)

set_tvSeriesName(st, t) ==
  LET r == checkTvSeriesName(t)
  IN IF r = NoViolation THEN [st EXCEPT !.m.tvSeriesName = t] ELSE Throw(st, r)

set_episodeNo(st, v) ==
  LET r == checkEpisodeNo(v, st.m.category)
  IN IF r = NoViolation THEN [st EXCEPT !.m.episodeNo = v] ELSE Throw(st, r)

set_about(st, v) ==
  LET r == checkAbout(v, st.m.category)
  IN IF r = NoViolation THEN [st EXCEPT !.m.about = v] ELSE Throw(st, r)

\* The next statement of a constructor or of a try block: it runs unless
\* an earlier one threw.
Then(st, next) == IF Ok(st) THEN next ELSE st

\* The element of a set of one element.
The(S) == CHOOSE x \in S : TRUE

FreshMovie == [movieID |-> Undef, title |-> Undef, releaseDate |-> Undef,
               director |-> NoRef, actor |-> EmptyFn, category |-> Undef,
               tvSeriesName |-> Undef, episodeNo |-> Undef, about |-> Undef,
               isNull |-> FALSE]

\* new Movie(slots) in program state w
NewMovie(w, slots) ==
  LET c1(st) == set_movieID(st, slots.movieID)
      c2(st) == Then(st, set_title(st, slots.title))
      c3(st) == Then(st, set_releaseDate(st, slots.releaseDate))
      c4(st) == Then(st, set_director(st, slots.director))
      c5(st) == Then(st, set_actor(st, slots.actor))
      c6(st) == IF Truthy(slots.category)
                THEN Then(st, set_category(st, slots.category)) ELSE st
      c7(st) == IF Truthy(slots.tvSeriesName)
                THEN Then(st, set_tvSeriesName(st, slots.tvSeriesName)) ELSE st
      c8(st) == IF Truthy(slots.episodeNo)
                THEN Then(st, set_episodeNo(st, slots.episodeNo)) ELSE st
      c9(st) == IF Truthy(slots.about) THEN Then(st, set_about(st, slots.about)) ELSE st
      s0 == [w |-> w, m |-> FreshMovie, err |-> NoViolation]
  IN The({c9(s) : s \in {c8(s) : s \in {c7(s) : s \in {c6(s) : s \in {c5(s) :
          s \in {c4(s) : s \in {c3(s) : s \in {c2(s) : s \in {c1(s) :
          s \in {s0}}}}}}}}}})

(***************************************************************************)
(* JSON.stringify(Movie.instances): toJSON copies the own properties, so   *)
(* a movie's record holds its director and its actors as nested person     *)
(* records.                                                                *)
(***************************************************************************)
\* A property value as JSON.stringify writes it and JSON.parse reads it
\* back: a Date as its ISO string, an invalid Date and NaN as null.
Stringified(v) ==
  IF v.t = "date" THEN IsoDate(v.n)
  ELSE IF v.t \in {"invalidDate", "NaN"} THEN Null
  ELSE v

NoPersonJSON == [personId |-> NoKey, name |-> Undef, agent |-> Undef, movies |-> {}]

PersonJSON(w, a) ==
  IF a = NoRef THEN NoPersonJSON
  ELSE [personId |-> w.objs[a].personId, name |-> w.objs[a].name,
        agent |-> w.objs[a].agent,
        movies |-> IF w.objs[a].mp = NoRef THEN {} ELSE w.maps[w.objs[a].mp]]

MovieJSON(w, m) ==
  [movieID |-> m.movieID, title |-> m.title,
   releaseDate |-> Stringified(m.releaseDate),
   director |-> PersonJSON(w, m.director),
   actor |-> [k \in DOMAIN m.actor |-> PersonJSON(w, m.actor[k])],
   category |-> m.category, tvSeriesName |-> m.tvSeriesName,
   episodeNo |-> m.episodeNo, about |-> m.about, isNull |-> m.isNull]

NoItem == [set |-> FALSE, recs |-> EmptyFn]

\* Movie.syncMoviesWithLocalStorage(Movie.instances)
syncMoviesWithLocalStorage(w0) ==
  CHOOSE r \in {[w EXCEPT !.moviesStore =
                   [set |-> TRUE,
                    recs |-> [k \in DOMAIN w.movieInst |-> MovieJSON(w, w.movieInst[k])]]] :
                w \in {w0}} : TRUE

(***************************************************************************)
(* The static operations.                                                  *)
(***************************************************************************)
\* Director.add(slots)
DirectorAddWorld(w, slots) ==
  LET k == PKey(parseInt(slots.personId))
      a == NewAddr("Director", k, DOMAIN w.objs)
      mp == NewAddr("Director", k, DOMAIN w.maps)
      r == NewPerson("Director", slots, w.dirInst, mp)
  IN [w   |-> IF r.err = NoViolation
              THEN [w EXCEPT !.objs = Put(@, a, r.o), !.maps = Put(@, mp, {}),
                             !.dirInst = Put(@, k, a)]
              ELSE w,
      err |-> r.err]

DirectorAdd(slots) ==
  \E r \in {DirectorAddWorld(World, slots)} :
    Commit(r.w, LastRec("Director.add", Undef, slots.personId, r.err, {}))

\* Person.add(slots): a plain person has no association map
PersonAddWorld(w, slots) ==
  LET k == PKey(parseInt(slots.personId))
      a == NewAddr("Person", k, DOMAIN w.objs)
      r == NewPerson("Person", slots, w.personInst, NoRef)
  IN [w   |-> IF r.err = NoViolation
              THEN [w EXCEPT !.objs = Put(@, a, r.o), !.personInst = Put(@, k, a)]
              ELSE w,
      err |-> r.err]

PersonAdd(slots) ==
  \E r \in {PersonAddWorld(World, slots)} :
    Commit(r.w, LastRec("Person.add", Undef, slots.personId, r.err, {}))

\* DirectType.instances
Instances(w, cls) ==
  IF cls = "Director" THEN w.dirInst
  ELSE IF cls = "Actor" THEN w.actInst
  ELSE w.personInst

\* Person.checkPersonIdAsId(id, DirectType): the call changes nothing;
\* last holds what it returned.
CheckPersonIdAsId(id, cls) ==
  /\ last' = [LastRec("checkPersonIdAsId", Undef, id,
                      checkPersonIdAsId(id, Instances(World, cls)), {})
                EXCEPT !.cls = cls]
  /\ UNCHANGED <<objs, maps, personInst, dirInst, actInst, movieInst, moviesStore,
                 peopleStore, directorsStore, actorsStore>>

\* Actor.add(slots): m/Actor.mjs mirrors m/Director.mjs
ActorAddWorld(w, slots) ==
  LET k == PKey(parseInt(slots.personId))
      a == NewAddr("Actor", k, DOMAIN w.objs)
      mp == NewAddr("Actor", k, DOMAIN w.maps)
      r == NewPerson("Actor", slots, w.actInst, mp)
  IN [w   |-> IF r.err = NoViolation
              THEN [w EXCEPT !.objs = Put(@, a, r.o), !.maps = Put(@, mp, {}),
                             !.actInst = Put(@, k, a)]
              ELSE w,
      err |-> r.err]

ActorAdd(slots) ==
  \E r \in {ActorAddWorld(World, slots)} :
    Commit(r.w, LastRec("Actor.add", Undef, slots.personId, r.err, {}))

\* cloneObject(obj) of lib/util.mjs: a new object with the own properties
\* of obj (a property that holds an object holds the same object in the
\* clone); it throws a TypeError for undefined and null.
cloneObject(obj) == obj

\* Movie.add(slots)
MovieAddWorld(w, slots) ==
  CHOOSE r \in {[w   |-> IF Ok(st)
                         THEN [st.w EXCEPT !.movieInst = Put(@, MKey(st.m.movieID), st.m)]
                         ELSE st.w,
                 err |-> st.err] : st \in {NewMovie(w, slots)}} : TRUE

MovieAdd(slots) ==
  \E r \in {MovieAddWorld(World, slots)} :
    Commit(r.w, LastRec("Movie.add", MKey(slots.movieID), slots.director, r.err, {}))

\* updatedProperties.push(prop) after a setter that returned
Updated(next0, prop) ==
  CHOOSE r \in {IF Ok(next) THEN [next EXCEPT !.upd = @ \cup {prop}] ELSE next :
                  next \in {next0}} : TRUE

\* The category branch of Movie.update assigning every category it is given.
updateCategory_reassigns(st, category) ==
  IF Truthy(category) /\ checkCategory(category) = NoViolation
  THEN Updated([st EXCEPT !.m.category = parseInt(category)], "category")
  ELSE st

\* The category branch of Movie.update.  "category" in movie is true for
\* every movie: category is an accessor of the class.
updateCategory(st, category) ==
  IF Truthy(category)
  THEN IF st.m.category = Undef
       THEN Updated(set_category(st, category), "category")
       ELSE IF category # st.m.category THEN Throw(st, Frozen)
       ELSE st
  ELSE IF category = Blank(0) THEN Throw(st, Frozen)
  ELSE st

\* The body of the try block of Movie.update: st.m is the movie, st.upd
\* the updatedProperties.
UpdateTry(st0, slots) ==
  LET u1(st) == IF Truthy(slots.title) /\ st.m.title # slots.title
                THEN Updated(set_title(st, slots.title), "title") ELSE st
      u2(st) == IF Ok(st) /\ Truthy(slots.releaseDate)
                THEN Updated(set_releaseDate(st, slots.releaseDate), "releaseDate")
                ELSE st
      u3(st) == IF Ok(st) /\ Truthy(slots.director)
                THEN Updated(set_director(st, slots.director), "director") ELSE st
      u4(st) == IF Ok(st) /\ slots.actor.t # "undefined"
                THEN Updated(set_actor(st, slots.actor), "actor") ELSE st
      u5(st) == Then(st, updateCategory(st, slots.category))
      u6(st) == IF Ok(st) /\ Truthy(slots.episodeNo) /\ st.m.episodeNo # slots.episodeNo
                THEN Updated(set_episodeNo(st, slots.episodeNo), "episodeNo") ELSE st
      u7(st) == IF Ok(st) /\ Truthy(slots.about) /\ st.m.about # slots.about
                THEN Updated(set_about(st, slots.about), "about") ELSE st
  IN The({u7(s) : s \in {u6(s) : s \in {u5(s) : s \in {u4(s) : s \in {u3(s) :
          s \in {u2(s) : s \in {u1(s) : s \in {st0}}}}}}}})

\* Movie.update without the restore in its catch block.
RestoredMovie_none(objectBeforeUpdate, movie) == movie

\* What Movie.update leaves in Movie.instances[movieID] when the try block
\* threw: the clone taken before the update.
RestoredMovie(objectBeforeUpdate, movie) == objectBeforeUpdate

\* Movie.update(slots)
MovieUpdateWorld(w, slots) ==
  LET k == MKey(slots.movieID)
  IN IF k \notin DOMAIN w.movieInst \/ w.movieInst[k].isNull
     THEN [w |-> w, err |-> TypeError, upd |-> {}]
     ELSE LET movie == w.movieInst[k]
              objectBeforeUpdate == cloneObject(movie)
              try == UpdateTry([w |-> w, m |-> movie, err |-> NoViolation, upd |-> {}],
                               slots)
          IN CHOOSE r \in {[w   |-> [st.w EXCEPT !.movieInst[k] =
                                       IF Ok(st) THEN st.m
                                       ELSE RestoredMovie(objectBeforeUpdate, st.m)],
                            err |-> st.err, upd |-> st.upd] : st \in {try}} : TRUE

MovieUpdate(slots) ==
  \E r \in {MovieUpdateWorld(World, slots)} :
    Commit(r.w, LastRec("Movie.update", MKey(slots.movieID), slots.director, r.err, r.upd))

\* Movie.destroy(movieID)
MovieDestroyWorld(w, movieID) ==
  LET k == MKey(movieID)
  IN IF k \in DOMAIN w.movieInst /\ ~w.movieInst[k].isNull
     THEN [w EXCEPT !.movieInst = Drop(@, k)]
     ELSE w

MovieDestroy(movieID) ==
  \E w \in {MovieDestroyWorld(World, movieID)} :
    Commit(w, LastRec("Movie.destroy", MKey(movieID), Undef, NoViolation, {}))

\* movie.category = c, movie.episodeNo = v, movie.about = v on the movie
\* stored under movieID: a direct use of the setter.
StoredMovie(movieID) ==
  [w |-> World, m |-> movieInst[MKey(movieID)], err |-> NoViolation]

MovieSetCategory(movieID, c) ==
  /\ MKey(movieID) \in DOMAIN movieInst
  /\ \E st \in {set_category(StoredMovie(movieID), c)} :
       Commit([st.w EXCEPT !.movieInst[MKey(movieID)] = st.m],
              LastRec("set category", MKey(movieID), c, st.err, {}))

MovieSetEpisodeNo(movieID, v) ==
  /\ MKey(movieID) \in DOMAIN movieInst
  /\ \E st \in {set_episodeNo(StoredMovie(movieID), v)} :
       Commit([st.w EXCEPT !.movieInst[MKey(movieID)] = st.m],
              LastRec("set episodeNo", MKey(movieID), v, st.err, {}))

MovieSetAbout(movieID, v) ==
  /\ MKey(movieID) \in DOMAIN movieInst
  /\ \E st \in {set_about(StoredMovie(movieID), v)} :
       Commit([st.w EXCEPT !.movieInst[MKey(movieID)] = st.m],
              LastRec("set about", MKey(movieID), v, st.err, {}))

\* movie.director = p on the movie stored under movieID.  last.upd tells
\* whether the movie had a director before.
MovieSetDirector(movieID, p) ==
  /\ MKey(movieID) \in DOMAIN movieInst
  /\ \E st \in {set_director(StoredMovie(movieID), p)} :
       Commit([st.w EXCEPT !.movieInst[MKey(movieID)] = st.m],
              LastRec("set director", MKey(movieID), p, st.err,
                      IF movieInst[MKey(movieID)].director = NoRef
                      THEN {} ELSE {"director"}))

\* A directedMovies slot is [t: "undefined" | "map", keys: the map's keys].
NoMap == [t |-> "undefined", keys |-> {}]
MapOf(keys) == [t |-> "map", keys |-> keys]

\* Director.update(slots).  Only the name setter can throw, and it runs
\* first: the clone that is put back then equals the director as it was,
\* and shares its directedMovies map.
DirectorUpdateWorld(w, slots) ==
  LET k == PKey(slots.personId)
  IN IF k \notin DOMAIN w.dirInst
     THEN [w |-> w, err |-> TypeError, upd |-> {}]
     ELSE LET a == w.dirInst[k]
              director == w.objs[a]
              objectBeforeUpdate == cloneObject(director)
              setName == Truthy(slots.name) /\ director.name # slots.name
              e == IF setName THEN checkName(slots.name) ELSE NoViolation
              setMap == slots.directedMovies.t # "undefined"
              others == Live([w EXCEPT !.dirInst = Drop(@, k)]) \cap DOMAIN w.objs
              clone == NewAddr("Director", k, others)
              \* the maps that stay in use when this director's map is replaced
              kept == {w.objs[b].mp : b \in (Live(w) \cap DOMAIN w.objs) \ {a}}
              mp == NewAddr("Director", k, kept)
          IN IF e # NoViolation
             THEN [w   |-> [w EXCEPT !.objs = Put(@, clone, objectBeforeUpdate),
                                     !.dirInst[k] = clone],
                   err |-> e, upd |-> {}]
             ELSE [w   |-> [w EXCEPT
                              !.objs[a].name = IF setName THEN slots.name ELSE @,
                              !.objs[a].mp = IF setMap THEN mp ELSE @,
                              !.maps = IF setMap
                                       THEN Put(@, mp, slots.directedMovies.keys)
                                       ELSE @],
                   err |-> NoViolation,
                   upd |-> (IF setName THEN {"name"} ELSE {})
                             \cup (IF setMap THEN {"directedMovies"} ELSE {})]

DirectorUpdate(slots) ==
  \E r \in {DirectorUpdateWorld(World, slots)} :
    Commit(r.w, LastRec("Director.update", Undef, slots.personId, r.err, r.upd))

\* The keys of Movie.instances in the order of for ... in: keys that are
\* decimal strings of integers come first, in ascending order.
RECURSIVE KeysInOrder(_)
KeysInOrder(S) ==
  IF S = {} THEN <<>>
  ELSE LET k == CHOOSE x \in S : \A y \in S : x.n <= y.n
       IN <<k>> \o KeysInOrder(S \ {k})

\* The loop of Director.destroy: movie.director.personId throws for a
\* movie without a director and for a null entry.
RECURSIVE DestroyLoop(_, _, _, _)
DestroyLoop(w0, personId, keys, i) ==
  LET Body(w) ==
        IF i > Len(keys) THEN [w |-> w, err |-> NoViolation]
        ELSE LET movie == w.movieInst[keys[i]]
             IN IF movie.isNull \/ movie.director = NoRef
                THEN [w |-> w, err |-> TypeError]
                ELSE IF personId = Num(w.objs[movie.director].personId)
                THEN DestroyLoop([w EXCEPT !.movieInst = Drop(@, keys[i])],
                                 personId, keys, i + 1)
                ELSE DestroyLoop(w, personId, keys, i + 1)
  IN CHOOSE r \in {Body(w) : w \in {w0}} : TRUE

\* Director.destroy(personId)
DirectorDestroyWorld(w, personId) ==
  LET k == PKey(personId)
      Rest(l) ==
        IF l.err # NoViolation THEN l
        ELSE IF k \notin DOMAIN l.w.dirInst THEN [w |-> l.w, err |-> TypeError]
        ELSE [w   |-> syncMoviesWithLocalStorage([l.w EXCEPT !.dirInst = Drop(@, k)]),
              err |-> NoViolation]
  IN CHOOSE r \in {Rest(l) : l \in {DestroyLoop(w, personId,
                                                KeysInOrder(DOMAIN w.movieInst), 1)}} : TRUE

DirectorDestroy(personId) ==
  \E r \in {DirectorDestroyWorld(World, personId)} :
    Commit(r.w, LastRec("Director.destroy", Undef, personId, r.err, {}))

(***************************************************************************)
(* Person.destroy, and local storage: saveAll, the page load and           *)
(* retrieveAll.                                                            *)
(***************************************************************************)
\* Person.destroy without its loop over Person.subtypes.
PurgeSubtypes_none(w, k) == w

\* The loop of Person.destroy over Person.subtypes (Director, Actor)
PurgeSubtypes(w, k) ==
  [w EXCEPT !.dirInst = IF k \in DOMAIN @ THEN Drop(@, k) ELSE @,
            !.actInst = IF k \in DOMAIN @ THEN Drop(@, k) ELSE @]

\* Person.destroy(personId): the last statement reads person.name and
\* throws when Person.instances had no such person.
PersonDestroyWorld(w, personId) ==
  LET k == PKey(personId)
      deleted == [w EXCEPT !.personInst = IF k \in DOMAIN @ THEN Drop(@, k) ELSE @]
  IN [w   |-> PurgeSubtypes(deleted, k),
      err |-> IF k \in DOMAIN w.personInst THEN NoViolation ELSE TypeError]

\* last.upd names the collections that held the key before the call.
PersonDestroy(personId) ==
  \E r \in {PersonDestroyWorld(World, personId)} :
    Commit(r.w, LastRec("Person.destroy", Undef, personId, r.err,
                        {c \in {"Person", "Director", "Actor"} :
                           PKey(personId) \in DOMAIN Instances(World, c)}))

\* JSON.stringify of a map of person objects
PeopleJSON(w, inst, keys) ==
  [set |-> TRUE, recs |-> [k \in keys |-> PersonJSON(w, inst[k])]]

\* Person.saveAll(): only the direct instances of Person are saved
PersonSaveAllWorld(w) ==
  [w EXCEPT !.peopleStore =
     PeopleJSON(w, w.personInst,
                {k \in DOMAIN w.personInst : w.objs[w.personInst[k]].cls = "Person"})]

PersonSaveAll ==
  Commit(PersonSaveAllWorld(World), LastRec("Person.saveAll", Undef, Undef, NoViolation, {}))

\* Director.saveAll()
DirectorSaveAllWorld(w) ==
  [w EXCEPT !.directorsStore = PeopleJSON(w, w.dirInst, DOMAIN w.dirInst)]

DirectorSaveAll ==
  Commit(DirectorSaveAllWorld(World),
         LastRec("Director.saveAll", Undef, Undef, NoViolation, {}))

\* Actor.saveAll(): m/Actor.mjs mirrors m/Director.mjs
ActorSaveAllWorld(w) ==
  [w EXCEPT !.actorsStore = PeopleJSON(w, w.actInst, DOMAIN w.actInst)]

ActorSaveAll ==
  Commit(ActorSaveAllWorld(World), LastRec("Actor.saveAll", Undef, Undef, NoViolation, {}))

\* Movie.saveAll()
MovieSaveAllWorld(w0) ==
  CHOOSE r \in {[w EXCEPT !.moviesStore =
                   [set |-> TRUE,
                    recs |-> [k \in DOMAIN w.movieInst |-> MovieJSON(w, w.movieInst[k])]]] :
                w \in {w0}} : TRUE

MovieSaveAll ==
  \E w \in {MovieSaveAllWorld(World)} :
    Commit(w, LastRec("Movie.saveAll", Undef, Undef, NoViolation, {}))

\* The page is loaded again: the modules' initialisers leave every
\* collection empty; local storage stays.
PageLoadWorld(w) ==
  [w EXCEPT !.personInst = EmptyFn, !.dirInst = EmptyFn, !.actInst = EmptyFn,
            !.movieInst = EmptyFn]

PageLoad ==
  Commit(PageLoadWorld(World), LastRec("load", Undef, Undef, NoViolation, {}))

\* if (!localStorage[...]) localStorage[...] = "{}"
Opened(store) == IF store.set THEN store ELSE [set |-> TRUE, recs |-> EmptyFn]

\* The constructor slots of a stored person record
PersonRecSlots(rec) ==
  [personId |-> Num(rec.personId), name |-> rec.name, agent |-> rec.agent]

\* One pass of a retrieveAll loop of Person, Director or Actor: the record
\* is converted by the class's constructor and skipped when that throws.
\* A director or actor gets the record's map, and is entered into
\* Person.instances as well.
LoadPersonRec(w, cls, key, rec) ==
  LET a == NewAddr(cls, key, DOMAIN w.objs)
      mp == IF cls = "Person" THEN NoRef ELSE NewAddr(cls, key, DOMAIN w.maps)
      r == NewPerson(cls, PersonRecSlots(rec), Instances(w, cls), mp)
      made == [w EXCEPT !.objs = Put(@, a, r.o),
                        !.maps = IF cls = "Person" THEN @ ELSE Put(@, mp, rec.movies),
                        !.personInst = Put(@, key, a)]
  IN IF r.err # NoViolation THEN w
     ELSE IF cls = "Director" THEN [made EXCEPT !.dirInst = Put(@, key, a)]
     ELSE IF cls = "Actor" THEN [made EXCEPT !.actInst = Put(@, key, a)]
     ELSE made

\* for (const key of Object.keys(recs)): the keys in ascending order
RECURSIVE LoadPeople(_, _, _, _)
LoadPeople(w0, cls, recs, keys) ==
  IF keys = {} THEN w0
  ELSE LET k == CHOOSE x \in keys : \A y \in keys : x <= y
       IN The({LoadPeople(w, cls, recs, keys \ {k}) :
                 w \in {LoadPersonRec(w0, cls, k, recs[k])}})

\* Person.retrieveAll without the loop that enters a subtype's instances
\* into Person.instances.
Merged_none(w, inst) == w

\* Person.instances[key] = Subtype.instances[key] for every key
Merged(w, inst) ==
  [w EXCEPT !.personInst = [k \in DOMAIN @ \cup DOMAIN inst |->
                              IF k \in DOMAIN inst THEN inst[k] ELSE @[k]]]

\* Director.retrieveAll()
DirectorRetrieveAllWorld(w0) ==
  The({LoadPeople([w EXCEPT !.directorsStore = Opened(@)], "Director",
                  Opened(w.directorsStore).recs, DOMAIN Opened(w.directorsStore).recs) :
         w \in {w0}})

\* Actor.retrieveAll(): m/Actor.mjs mirrors m/Director.mjs
ActorRetrieveAllWorld(w0) ==
  The({LoadPeople([w EXCEPT !.actorsStore = Opened(@)], "Actor",
                  Opened(w.actorsStore).recs, DOMAIN Opened(w.actorsStore).recs) :
         w \in {w0}})

\* Person.retrieveAll(): the direct instances, then every subtype
PersonRetrieveAllWorld(w0) ==
  LET direct(w) == LoadPeople([w EXCEPT !.peopleStore = Opened(@)], "Person",
                              Opened(w.peopleStore).recs,
                              DOMAIN Opened(w.peopleStore).recs)
      directors(w) == The({Merged(v, v.dirInst) : v \in {DirectorRetrieveAllWorld(w)}})
      actors(w) == The({Merged(v, v.actInst) : v \in {ActorRetrieveAllWorld(w)}})
  IN The({actors(w2) : w2 \in {directors(w1) : w1 \in {direct(w) : w \in {w0}}}})

\* last.upd names the collections that were empty before the call.
PersonRetrieveAll ==
  \E w \in {PersonRetrieveAllWorld(World)} :
    Commit(w, LastRec("Person.retrieveAll", Undef, Undef, NoViolation,
                      {c \in {"Person", "Director", "Actor"} :
                         DOMAIN Instances(World, c) = {}}))

\* The actors of a stored movie record as the objects that set actor
\* walks through: the values of the map in the order of its keys.
RECURSIVE ActorRefs(_, _)
ActorRefs(actor, keys) ==
  IF keys = {} THEN <<>>
  ELSE LET k == CHOOSE x \in keys : \A y \in keys : x <= y
       IN <<ObjRef(actor[k].personId)>> \o ActorRefs(actor, keys \ {k})

\* The constructor slots of a stored movie record
MovieRecSlots(rec) ==
  [movieID |-> rec.movieID, title |-> rec.title, releaseDate |-> rec.releaseDate,
   director |-> IF rec.director = NoPersonJSON THEN Undef
                ELSE ObjRef(rec.director.personId),
   actor |-> ActorMap(ActorRefs(rec.actor, DOMAIN rec.actor)),
   category |-> rec.category, tvSeriesName |-> rec.tvSeriesName,
   episodeNo |-> rec.episodeNo, about |-> rec.about]

\* Movie.instances[movieID] = Movie.convertRec2Obj(movies[movieID]): null
\* when the constructor throws (for a null record it does); what the
\* constructor did to the persons' maps before it threw stays.
LoadMovieRec(w0, key, rec) ==
  IF rec.isNull THEN [w0 EXCEPT !.movieInst = Put(@, key, NullMovie)]
  ELSE The({[st.w EXCEPT !.movieInst = Put(@, key, IF Ok(st) THEN st.m ELSE NullMovie)] :
              st \in {NewMovie(w0, MovieRecSlots(rec))}})

RECURSIVE LoadMovies(_, _, _, _)
LoadMovies(w0, recs, keys, i) ==
  IF i > Len(keys) THEN w0
  ELSE The({LoadMovies(w, recs, keys, i + 1) :
              w \in {LoadMovieRec(w0, keys[i], recs[keys[i]])}})

\* Movie.retrieveAll()
MovieRetrieveAllWorld(w0) ==
  The({LoadMovies([w EXCEPT !.moviesStore = Opened(@)],
                  Opened(w.moviesStore).recs,
                  KeysInOrder(DOMAIN Opened(w.moviesStore).recs), 1) : w \in {w0}})

MovieRetrieveAll ==
  \E w \in {MovieRetrieveAllWorld(World)} :
    Commit(w, LastRec("Movie.retrieveAll", Undef, Undef, NoViolation, {}))

(***************************************************************************)
(* The calls the model makes.                                              *)
(***************************************************************************)
MaxPersonId == 2
MaxActorId == 1
MaxMovieId == 1

PersonIds == 1..MaxPersonId
MovieIds == 1..MaxMovieId

PersonSlots(ids, names) ==
  {[personId |-> i, name |-> n, agent |-> Undef] : i \in ids, n \in names}

MovieSlots(ids, titles, dates, dirs, acts, cats, eps, abouts) ==
  {[movieID |-> i, title |-> t, releaseDate |-> y, director |-> d, actor |-> a,
    category |-> c, tvSeriesName |-> Undef, episodeNo |-> e, about |-> b] :
     i \in ids, t \in titles, y \in dates, d \in dirs, a \in acts,
     c \in cats, e \in eps, b \in abouts}

ValidDate == DateV(YEAR_FIRST_MOVIE)
EarlyDate == DateV(YEAR_FIRST_MOVIE - 1)

EmptyWorld == [objs |-> EmptyFn, maps |-> EmptyFn, personInst |-> EmptyFn,
               dirInst |-> EmptyFn, actInst |-> EmptyFn, movieInst |-> EmptyFn,
               moviesStore |-> NoItem, peopleStore |-> NoItem,
               directorsStore |-> NoItem, actorsStore |-> NoItem]

Started(w) ==
  /\ objs = w.objs
  /\ maps = w.maps
  /\ personInst = w.personInst
  /\ dirInst = w.dirInst
  /\ actInst = w.actInst
  /\ movieInst = w.movieInst
  /\ moviesStore = w.moviesStore
  /\ peopleStore = w.peopleStore
  /\ directorsStore = w.directorsStore
  /\ actorsStore = w.actorsStore
  /\ last = LastRec("init", Undef, Undef, NoViolation, {})

\* The state after Director.add of the persons 1..nd and Actor.add of the
\* persons 1..na.
RECURSIVE Populated(_, _)
Populated(nd, na) ==
  IF nd = 0 /\ na = 0 THEN EmptyWorld
  ELSE IF na > 0
  THEN CHOOSE r \in {ActorAddWorld(w, [personId |-> Num(na), name |-> Text(na),
                                       agent |-> Undef]).w :
                       w \in {Populated(nd, na - 1)}} : TRUE
  ELSE CHOOSE r \in {DirectorAddWorld(w, [personId |-> Num(nd), name |-> Text(nd),
                                          agent |-> Undef]).w :
                       w \in {Populated(nd - 1, 0)}} : TRUE

(***************************************************************************)
(* Spec: the association model.  It starts with the directors and actors   *)
(* 1..MaxPersonId created; movies are created, updated and destroyed,      *)
(* directors updated and destroyed.  The movies' title and release date    *)
(* are fixed valid values.                                                 *)
(***************************************************************************)
NumIds == {Num(i) : i \in PersonIds}
MovieKeys == {NumStr(i) : i \in MovieIds}
Unresolved == Num(MaxPersonId + 1)

Init == Started(Populated(MaxPersonId, MaxActorId))

AssocAddSlots ==
  MovieSlots(MovieKeys, {Text(1)}, {ValidDate},
             {Undef, Num(1), Arr1(MaxPersonId), Unresolved},
             {ActorArray(<<>>), ActorArray(<<NumStr(MaxActorId)>>),
              ActorArray(<<Num(MaxActorId), Unresolved>>)},
             {Undef}, {Undef}, {Undef})

AssocUpdateSlots ==
  MovieSlots(MovieKeys, {Undef}, {Undef}, {Undef, Unresolved} \cup NumIds,
             {NoActors, ActorArray(<<>>), ActorArray(<<Num(MaxActorId)>>),
              ActorArray(<<Num(MaxActorId), Unresolved>>)},
             {Undef}, {Undef}, {Undef})

DirectorUpdateSlots ==
  {[personId |-> i, name |-> n, directedMovies |-> d] :
     i \in NumIds, n \in {Undef, Blank(1)}, d \in {NoMap, MapOf(MovieKeys)}} \
    {[personId |-> i, name |-> Undef, directedMovies |-> NoMap] : i \in NumIds}

Next ==
  \/ \E s \in AssocAddSlots : MovieAdd(s)
  \/ \E s \in AssocUpdateSlots : MovieUpdate(s)
  \/ \E k \in MovieKeys : MovieDestroy(k)
  \/ \E s \in DirectorUpdateSlots : DirectorUpdate(s)
  \/ \E i \in NumIds \cup {NumStr(MaxPersonId)} : DirectorDestroy(i)

Spec == Init /\ [][Next]_vars

(***************************************************************************)
(* SpecFields: the movies' own fields.  Movies are created and updated     *)
(* with valid and invalid titles, release dates, categories, episode       *)
(* numbers and about values.                                               *)
(***************************************************************************)
FieldAddSlots ==
  MovieSlots(MovieKeys, {Text(1), Blank(1)}, {ValidDate}, {Num(1)}, {ActorArray(<<>>)},
             {Undef, Num(TVSERIESEPISODE), NumStr(BIOGRAPHY), Num(CategoryMAX + 1)},
             {Undef, Num(1), Text(1)}, {Undef, Text(1)})

FieldUpdateSlots ==
  {s \in MovieSlots(MovieKeys, {Undef, Text(2)}, {Undef, EarlyDate},
                    {Undef, Num(MaxPersonId)}, {NoActors, ActorArray(<<Num(MaxActorId)>>)},
                    {Undef, Num(TVSERIESEPISODE), Num(BIOGRAPHY), Blank(0)},
                    {Undef, Num(2)}, {Undef, Text(1), Blank(1)}) :
     (s.director = Undef) = (s.actor = NoActors)}

NextFields ==
  \/ \E s \in FieldAddSlots : MovieAdd(s)
  \/ \E s \in FieldUpdateSlots : MovieUpdate(s)
  \/ \E k \in MovieKeys : MovieDestroy(k)

SpecFields == Init /\ [][NextFields]_vars

(***************************************************************************)
(* SpecSetters: the setters of the category and of the category-specific   *)
(* fields, used directly on the stored movies.                             *)
(***************************************************************************)
SetterAddSlots ==
  MovieSlots(MovieKeys, {Text(1)}, {ValidDate}, {Num(1)}, {ActorArray(<<>>)},
             {Undef, Num(BIOGRAPHY)}, {Undef}, {Undef, Text(1)})

CategoryInputs ==
  {Undef, Num(0), Half(1), Text(1), Num(CategoryMAX + 1), NumStr(TVSERIESEPISODE)}
    \cup {Num(c) : c \in 1..CategoryMAX}

DirectorInputs == {Undef, Arr1(1), Unresolved} \cup NumIds

NextSetters ==
  \/ \E s \in SetterAddSlots : MovieAdd(s)
  \/ \E k \in MovieKeys, c \in CategoryInputs : MovieSetCategory(k, c)
  \/ \E k \in MovieKeys, v \in {Undef, Num(1), Num(0)} : MovieSetEpisodeNo(k, v)
  \/ \E k \in MovieKeys, v \in {Undef, Text(1), Blank(1)} : MovieSetAbout(k, v)
  \/ \E k \in MovieKeys, p \in DirectorInputs : MovieSetDirector(k, p)
  \/ \E k \in MovieKeys : MovieDestroy(k)

SpecSetters == Init /\ [][NextSetters]_vars

(***************************************************************************)
(* SpecPeople: persons, directors and actors are created, and              *)
(* checkPersonIdAsId is applied to ids of every kind.                      *)
(***************************************************************************)
InitPeople == Started(EmptyWorld)

Classes == {"Person", "Director", "Actor"}

PersonIdInputs ==
  {Undef, Num(0 - 1), Num(0), Half(0), Half(1), Text(1)}
    \cup NumIds \cup {NumStr(i) : i \in PersonIds}

NewPersonSlots == PersonSlots({Num(0), Half(1), NumStr(MaxPersonId)}, {Text(1)})

NextPeople ==
  \/ \E s \in NewPersonSlots : PersonAdd(s)
  \/ \E s \in NewPersonSlots : DirectorAdd(s)
  \/ \E s \in NewPersonSlots : ActorAdd(s)
  \/ \E id \in PersonIdInputs, cls \in Classes : CheckPersonIdAsId(id, cls)

SpecPeople == InitPeople /\ [][NextPeople]_vars

(***************************************************************************)
(* SpecStore: persistence.  Persons and movies are created, persons and    *)
(* directors destroyed, every class is saved, the page is loaded again     *)
(* and the stores are read back.                                           *)
(***************************************************************************)
\* Leaving the page with every class saved, and opening it again: saveAll
\* of the four classes, the page load, Person.retrieveAll() and
\* Movie.retrieveAll().
SaveAndReloadWorld(w0) ==
  The({MovieRetrieveAllWorld(w6) : w6 \in {PersonRetrieveAllWorld(w5) :
       w5 \in {PageLoadWorld(w4) : w4 \in {MovieSaveAllWorld(w3) :
       w3 \in {ActorSaveAllWorld(w2) : w2 \in {DirectorSaveAllWorld(w1) :
       w1 \in {PersonSaveAllWorld(w) : w \in {w0}}}}}}}})

SaveAndReload ==
  \E w \in {SaveAndReloadWorld(World)} :
    Commit(w, LastRec("reload", Undef, Undef, NoViolation, {}))

StoreMovieKeys == {NumStr(i) : i \in 1..(MaxMovieId + 1)}

\* A movie without persons, or one with a director and an actor.
StoreMovieSlots ==
  {s \in MovieSlots(StoreMovieKeys, {Text(1)}, {ValidDate}, {Undef, Num(1)},
                    {ActorArray(<<>>), ActorArray(<<Num(MaxActorId)>>)},
                    {Undef}, {Undef}, {Undef}) :
     (s.director = Undef) = (s.actor = ActorArray(<<>>))}

NextStore ==
  \/ \E s \in StoreMovieSlots : MovieAdd(s)
  \/ \E k \in StoreMovieKeys : MovieDestroy(k)
  \/ MovieSaveAll
  \/ PageLoad
  \/ PersonRetrieveAll
  \/ MovieRetrieveAll
  \/ SaveAndReload

SpecStore == Init /\ [][NextStore]_vars

(***************************************************************************)
(* SpecRegistry: the person collections.  Persons are created and          *)
(* destroyed, persons and directors saved, the page is loaded again and    *)
(* the people are read back.                                               *)
(***************************************************************************)
RegistryPersonSlots == PersonSlots({Num(1), Unresolved}, {Text(LongTextIx - 1)})

NextRegistry ==
  \/ \E s \in RegistryPersonSlots : PersonAdd(s)
  \/ \E i \in {Num(1), NumStr(MaxPersonId), Unresolved} : PersonDestroy(i)
  \/ PersonSaveAll
  \/ DirectorSaveAll
  \/ ActorSaveAll
  \/ PageLoad
  \/ PersonRetrieveAll

SpecRegistry == Init /\ [][NextRegistry]_vars

(***************************************************************************)
(* SpecChecks: the check functions of Person and Movie, applied to values  *)
(* of every kind while person 1, the directors, the actors and movie "1"   *)
(* exist; and Movie.add with the release date 1800-01-01.                  *)
(***************************************************************************)
\* fn(v) or, for checkEpisodeNo and checkAbout, fn(v, c)
CheckResult(fn, v, c) ==
  CASE fn = "checkPersonId" -> checkPersonId(v)
    [] fn = "checkPersonIdAsIdRef" -> checkPersonIdAsIdRef(v, personInst)
    [] fn = "checkName" -> checkName(v)
    [] fn = "checkAgent" -> checkAgent(v)
    [] fn = "checkMovieID" -> checkMovieID(v)
    [] fn = "checkMovieIDAsId" -> checkMovieIDAsId(v, movieInst)
    [] fn = "checkTitle" -> checkTitle(v)
    [] fn = "checkReleaseDate" -> checkReleaseDate(v)
    [] fn = "checkDirector" -> checkDirector(v, personInst)
    [] fn = "checkActor" -> checkActor(v, personInst)
    [] fn = "checkCategory" -> checkCategory(v)
    [] fn = "checkEpisodeNo" -> checkEpisodeNo(v, c)
    [] fn = "checkAbout" -> checkAbout(v, c)

\* A call of a check function changes nothing; last holds the function,
\* its argument v, the category c it was given and what it returned.
CheckCall(fn, v, c) ==
  /\ last' = LastRec(fn, c, v, CheckResult(fn, v, c), {})
  /\ UNCHANGED <<objs, maps, personInst, dirInst, actInst, movieInst, moviesStore,
                 peopleStore, directorsStore, actorsStore>>

CategoryChecks == {"checkEpisodeNo", "checkAbout"}

CheckFunctions ==
  {"checkPersonId", "checkPersonIdAsIdRef", "checkName", "checkAgent", "checkMovieID",
   "checkMovieIDAsId", "checkTitle", "checkReleaseDate", "checkDirector", "checkActor",
   "checkCategory"} \cup CategoryChecks

\* 1800-01-01 as a day number
Day18000101 == 0 - 35059

CheckDates ==
  {DateV(Day18000101), DateV(0 - 1), DateV(0), DateV(YEAR_FIRST_MOVIE - 1),
   DateV(YEAR_FIRST_MOVIE), DateV(EpochDay)}

CheckInputs ==
  {Undef, Num(0 - 1), Num(0), Num(1), Num(MaxPersonId + 1), Half(1), NumStr(1),
   Text(1), Text(LongTextIx), Blank(0), Blank(1)} \cup CheckDates

EarlyAddSlots ==
  MovieSlots({NumStr(MaxMovieId + 1)}, {Text(1)}, {DateV(Day18000101)},
             {Undef, Num(1)}, {ActorArray(<<>>)}, {Undef}, {Undef}, {Undef})

\* The state after Person.add of person 1 and Movie.add of movie "1".
InitChecks ==
  Started(The({MovieAddWorld(w, The(MovieSlots({NumStr(1)}, {Text(1)}, {ValidDate},
                                               {Num(1)}, {ActorArray(<<>>)},
                                               {Undef}, {Undef}, {Undef}))).w :
                 w \in {PersonAddWorld(v, The(PersonSlots({Num(1)}, {Text(1)}))).w :
                   v \in {Populated(MaxPersonId, MaxActorId)}}}))

NextChecks ==
  \/ \E fn \in CheckFunctions, v \in CheckInputs :
       \E c \in IF fn \in CategoryChecks
                THEN {Undef, Num(TVSERIESEPISODE), Num(BIOGRAPHY)} ELSE {Undef} :
         CheckCall(fn, v, c)
  \/ \E id \in PersonIdInputs, cls \in Classes : CheckPersonIdAsId(id, cls)
  \/ \E s \in EarlyAddSlots : MovieAdd(s)

SpecChecks == InitChecks /\ [][NextChecks]_vars

(***************************************************************************)
(* SpecMovies: the movie collection and its store, from empty collections  *)
(* and an empty local storage.  Movies without persons are created,        *)
(* retitled and destroyed, saved and retrieved.                            *)
(***************************************************************************)
PlainAddSlots ==
  MovieSlots(StoreMovieKeys, {Text(1)}, {ValidDate}, {Undef}, {ActorArray(<<>>)},
             {Undef}, {Undef}, {Undef})

PlainUpdateSlots ==
  MovieSlots(StoreMovieKeys, {Undef, Text(2)}, {Undef}, {Undef}, {NoActors},
             {Undef}, {Undef}, {Undef})

NextMovies ==
  \/ \E s \in PlainAddSlots : MovieAdd(s)
  \/ \E s \in PlainUpdateSlots : MovieUpdate(s)
  \/ \E k \in StoreMovieKeys : MovieDestroy(k)
  \/ MovieSaveAll
  \/ MovieRetrieveAll

SpecMovies == InitPeople /\ [][NextMovies]_vars

(***************************************************************************)
(* SpecDeletion: deletion of people.  Movies with and without persons are  *)
(* created and destroyed, persons and directors are destroyed.             *)
(***************************************************************************)
NextDeletion ==
  \/ \E s \in StoreMovieSlots : MovieAdd(s)
  \/ \E k \in StoreMovieKeys : MovieDestroy(k)
  \/ \E i \in NumIds : PersonDestroy(i)
  \/ \E i \in NumIds : DirectorDestroy(i)

\* The page opened on a saved population: Person.retrieveAll has merged the
\* directors and the actors into Person.instances.
InitDeletion == Started(SaveAndReloadWorld(Populated(MaxPersonId, MaxActorId)))

SpecDeletion == InitDeletion /\ [][NextDeletion]_vars

(***************************************************************************)
(* The properties.                                                         *)
(***************************************************************************)
\* C1: for every director d of Director.instances and every movie ID m, m is
\* a key of d.directedMovies if and only if Movie.instances[m] exists and its
\* director is d.
DirectedMoviesMatch ==
  \A k \in DOMAIN dirInst :
    \A m \in maps[objs[dirInst[k]].mp] \cup DOMAIN movieInst :
      (m \in maps[objs[dirInst[k]].mp])
        <=> (m \in DOMAIN movieInst /\ movieInst[m].director = dirInst[k])

\* C2: for every actor a of Actor.instances and every movie ID m, m is a key
\* of a.actedInMovies if and only if Movie.instances[m] exists and a is a
\* member of its actor set.
ActedInMoviesMatch ==
  \A k \in DOMAIN actInst :
    \A m \in maps[objs[actInst[k]].mp] \cup DOMAIN movieInst :
      (m \in maps[objs[actInst[k]].mp])
        <=> (m \in DOMAIN movieInst /\ actInst[k] \in Rng(movieInst[m].actor))

\* C3: a Movie.add that fails commits nothing: Movie.instances and every
\* directedMovies and actedInMovies map are as before the call.
FailedAddCommitsNothing ==
  [][(last'.op = "Movie.add" /\ last'.err # NoViolation)
       => (movieInst' = movieInst /\ maps' = maps)]_vars

\* C4: a Movie.update that fails leaves the movie stored under the movieID
\* with the title, releaseDate, director, actor set, category, episodeNo and
\* about it had before the call.
FailedUpdateRestoresMovie ==
  [][(last'.op = "Movie.update" /\ last'.err # NoViolation
        /\ last'.key \in DOMAIN movieInst)
       => (/\ last'.key \in DOMAIN movieInst'
           /\ movieInst'[last'.key] = movieInst[last'.key])]_vars

\* A Movie.update failed after it had assigned the title, the director and
\* the actors.
FailedUpdateAfterAssignments ==
  /\ last.op = "Movie.update"
  /\ last.err # NoViolation
  /\ {"title", "director", "actor"} \subseteq last.upd

\* C5: a Movie.update that assigned the director or the actors and then
\* failed leaves every directedMovies and actedInMovies map as before the
\* call.
FailedUpdateKeepsBackRefs ==
  [][(last'.op = "Movie.update" /\ last'.err # NoViolation
        /\ last'.upd \cap {"director", "actor"} # {})
       => maps' = maps]_vars

\* C6: the category setter on a movie whose category was not yet assigned a
\* valid code accepts every valid code (1..MovieCategoryEL.MAX) and stores
\* it; on a movie whose category is set it ends with a FrozenValue violation,
\* whatever the value, and the category stays.
CategoryWriteOnce ==
  [][last'.op = "set category"
       => IF Truthy(movieInst[last'.key].category)
          THEN /\ last'.err = Frozen
               /\ movieInst'[last'.key].category = movieInst[last'.key].category
          ELSE (isIntegerOrIntegerString(last'.arg)
                  /\ last'.arg.n \in 1..CategoryMAX)
                 => /\ last'.err = NoViolation
                    /\ movieInst'[last'.key].category = Num(last'.arg.n)]_vars

\* The category setter was given the very category the movie has, and
\* refused it.
SameCategoryRefused ==
  /\ last.op = "set category"
  /\ last.err = Frozen
  /\ last.arg = movieInst[last.key].category

\* C7: a Movie.update, successful or failed, leaves the category of every
\* movie that has one as it is.
CategoryKeptByUpdate ==
  [][last'.op = "Movie.update"
       => \A k \in DOMAIN movieInst :
            movieInst[k].category # Undef
              => (/\ k \in DOMAIN movieInst'
                  /\ movieInst'[k].category = movieInst[k].category)]_vars

\* A Movie.update with another category for a movie that has one was refused.
CategoryChangeRefused ==
  /\ last.op = "Movie.update"
  /\ last.err = Frozen
  /\ last.key \in DOMAIN movieInst
  /\ movieInst[last.key].category # Undef

\* C8: every movie in Movie.instances whose category is TV series episode
\* has an episodeNo, and every movie whose category is Biography has an
\* about value.
MandatoryFieldsPresent ==
  \A k \in DOMAIN movieInst :
    /\ movieInst[k].category = Num(TVSERIESEPISODE) => movieInst[k].episodeNo # Undef
    /\ movieInst[k].category = Num(BIOGRAPHY) => movieInst[k].about # Undef

\* C9: every movie in Movie.instances that has an episodeNo has the category
\* TV series episode, and every movie that has an about value has the
\* category Biography.
ForbiddenFieldsAbsent ==
  \A k \in DOMAIN movieInst :
    /\ movieInst[k].episodeNo # Undef => movieInst[k].category = Num(TVSERIESEPISODE)
    /\ movieInst[k].about # Undef => movieInst[k].category = Num(BIOGRAPHY)

\* A Movie.update with an about value for a TV series episode, which has its
\* episodeNo, was refused.
AboutRefusedForEpisode ==
  /\ last.op = "Movie.update"
  /\ last.err = Generic
  /\ last.key \in DOMAIN movieInst
  /\ movieInst[last.key].episodeNo # Undef

\* C10: checkPersonIdAsId(id, DirectType) rejects an id that is not
\* positive, that is not an integer or that is a key of DirectType.instances,
\* and accepts a positive integer that is no key of DirectType.instances.
PersonIdAsIdDecides ==
  last.op = "checkPersonIdAsId"
    => LET id == last.arg
           used == id.n \in DOMAIN Instances(World, last.cls)
           rejected == last.err # NoViolation
       IN /\ (id.t = "number" /\ id.n < 1) => rejected
          /\ id.t = "float" => rejected
          /\ (id.t = "number" /\ id.n >= 1 /\ used) => rejected
          /\ (id.t = "number" /\ id.n >= 1 /\ ~used) => ~rejected

\* C11: a Movie.add or Movie.update that comes to assign a director ID that
\* no director has ends with a ReferentialIntegrity violation, and leaves the
\* stored movies (their directors) and every directedMovies map as they were.
UnresolvedDirectorRefused ==
  [][(/\ last'.arg = Unresolved
      /\ \/ last'.op = "Movie.add" /\ last'.key \notin DOMAIN movieInst
         \/ last'.op = "Movie.update" /\ last'.key \in DOMAIN movieInst)
       => (/\ last'.err = RefIntegrity
           /\ movieInst' = movieInst
           /\ maps' = maps)]_vars

\* The IDs, the field values and the associations of the collection inst
\* of persons in program state w.
PeopleOf(w, inst) == [k \in DOMAIN inst |-> PersonJSON(w, inst[k])]

\* The movies of program state w with their directors and actors.
MoviesOf(w) == [k \in DOMAIN w.movieInst |-> MovieJSON(w, w.movieInst[k])]

\* Every movie is a movie object whose director and actors are in
\* Director.instances and Actor.instances.
ValidPopulation ==
  \A k \in DOMAIN movieInst :
    /\ ~movieInst[k].isNull
    /\ MovieRefs(movieInst[k]) \subseteq Rng(dirInst) \cup Rng(actInst)

\* C12: saving every class, loading the page again and retrieving the people
\* and then the movies gives back the population that was saved: the same
\* IDs in Person.instances, Director.instances, Actor.instances and
\* Movie.instances, the same field values, the same directors and actors, the
\* same directedMovies and actedInMovies.
RoundTripKeepsPopulation ==
  [][(last'.op = "reload" /\ ValidPopulation)
       => (/\ PeopleOf(World, personInst)' = PeopleOf(World, personInst)
           /\ PeopleOf(World, dirInst)' = PeopleOf(World, dirInst)
           /\ PeopleOf(World, actInst)' = PeopleOf(World, actInst)
           /\ MoviesOf(World)' = MoviesOf(World))]_vars

\* A stored reference to a person that is a bare person ID.
BareIds == {Num(i) : i \in 1..(MaxPersonId + 1)}

\* C13: after Movie.saveAll every record of the "movies" store holds its
\* director, if it has one, as a bare person ID and its actors as bare person
\* IDs: no record holds a nested person record.
SavedMoviesHoldBareIds ==
  last.op = "Movie.saveAll" =>
    \A k \in DOMAIN moviesStore.recs :
      /\ moviesStore.recs[k].director \in BareIds \cup {NoPersonJSON}
      /\ \A a \in DOMAIN moviesStore.recs[k].actor :
           moviesStore.recs[k].actor[a] \in BareIds

\* C14: after Movie.retrieveAll every entry of Movie.instances is a movie
\* object: a record that its constructor refuses is skipped and leaves no
\* entry, null or other.
RetrievedMoviesAreMovies ==
  last.op = "Movie.retrieveAll" =>
    \A k \in DOMAIN movieInst : ~movieInst[k].isNull

\* C15: after Director.destroy(id) for an id, number or numeric string, of a
\* director of Director.instances, no movie of Movie.instances has a director
\* with that personId, and the "movies" store holds the serialization of
\* Movie.instances.
DestroyedDirectorHasNoMovies ==
  [][(last'.op = "Director.destroy" /\ PKey(last'.arg) \in DOMAIN dirInst)
       => (/\ \A k \in DOMAIN movieInst' :
                \/ movieInst'[k].director = NoRef
                \/ objs'[movieInst'[k].director].personId # PKey(last'.arg)
           /\ moviesStore' = [set |-> TRUE, recs |-> MoviesOf(World)'])]_vars

\* C16: after Person.destroy(id), id is a key neither of Person.instances nor
\* of Director.instances nor of Actor.instances.
DestroyedPersonIsNowhere ==
  last.op = "Person.destroy" =>
    /\ PKey(last.arg) \notin DOMAIN personInst
    /\ PKey(last.arg) \notin DOMAIN dirInst
    /\ PKey(last.arg) \notin DOMAIN actInst

\* Person.destroy has returned for a person that was in Person.instances and
\* in a subtype's collection.
DestroyedASubtypeInstance ==
  /\ last.op = "Person.destroy"
  /\ last.err = NoViolation
  /\ "Person" \in last.upd
  /\ last.upd \cap {"Director", "Actor"} # {}

\* A record of the "people" store that the Person constructor accepts when
\* its ID is not in use.
ValidPersonRec(rec) ==
  /\ checkPersonId(Num(rec.personId)) = NoViolation
  /\ rec.personId >= 1
  /\ checkName(rec.name) = NoViolation

\* C17: after Person.retrieveAll every key of Director.instances and of
\* Actor.instances is a key of Person.instances, and every valid record of the
\* "people" store whose ID no director and no actor uses is in
\* Person.instances.
PeopleMergedOnRetrieve ==
  last.op = "Person.retrieveAll" =>
    /\ DOMAIN dirInst \cup DOMAIN actInst \subseteq DOMAIN personInst
    /\ \A k \in DOMAIN peopleStore.recs :
         (ValidPersonRec(peopleStore.recs[k]) /\ k \notin DOMAIN dirInst \cup DOMAIN actInst)
           => k \in DOMAIN personInst

\* Person.retrieveAll has run on empty collections and has loaded directors
\* and direct persons, one of them under the ID of a director.
RetrievedPeopleAndSubtypes ==
  /\ last.op = "Person.retrieveAll"
  /\ last.upd = {"Person", "Director", "Actor"}
  /\ dirInst # EmptyFn
  /\ \E k \in DOMAIN peopleStore.recs : k \notin DOMAIN dirInst
  /\ \E k \in DOMAIN peopleStore.recs : k \in DOMAIN dirInst

\* C18: Movie.checkReleaseDate returns an Interval violation for every date
\* before 1895-12-28 (day 0) and no violation for every date from that day
\* on; and Movie.add with the release date 1800-01-01 (every Movie.add of
\* SpecChecks) ends with an Interval violation and leaves Movie.instances as
\* it was.
ReleaseDateInterval ==
  [][/\ (last'.op = "checkReleaseDate" /\ last'.arg.t = "date")
          => last'.err = IF last'.arg.n < 0 THEN Interval ELSE NoViolation
     /\ last'.op = "Movie.add"
          => (last'.err = Interval /\ movieInst' = movieInst)]_vars

\* The closed taxonomy of constraint violations.
Taxonomy ==
  {NoViolation, Mandatory, Range, Pattern, Uniqueness, RefIntegrity, Frozen, Interval}

\* C19: every check function of Person and Movie returns, for every input, a
\* value of the closed taxonomy: it does not throw, and it returns no other
\* kind of value.
ChecksReturnTaxonomy ==
  last.op \in CheckFunctions \cup {"checkPersonIdAsId"} => last.err \in Taxonomy

\* The director ID of the slots s is the ID of a director of
\* Director.instances, and every actor ID that of an actor of Actor.instances.
PersonsResolve(s) ==
  /\ s.director # Undef
  /\ PKey(s.director) \in DOMAIN dirInst
  /\ \A i \in 1..Len(s.actor.ids) : PKey(s.actor.ids[i]) \in DOMAIN actInst

\* C20: Movie.add with a movie ID that is not in use, a valid title and release
\* date, the ID of a director of Director.instances and IDs of actors of
\* Actor.instances succeeds: the movie is stored under its ID, the director's
\* directedMovies holds the movie's ID, and so does the actedInMovies of every
\* actor listed.
AddLinksDirectorAndActors ==
  [][\A s \in AssocAddSlots :
       (/\ MKey(s.movieID) \notin DOMAIN movieInst
        /\ PersonsResolve(s)
        /\ MovieAdd(s))
         => (/\ last'.err = NoViolation
             /\ MKey(s.movieID) \in DOMAIN movieInst'
             /\ movieInst'[MKey(s.movieID)].movieID = s.movieID
             /\ MKey(s.movieID) \in maps'[objs'[dirInst'[PKey(s.director)]].mp]
             /\ \A i \in 1..Len(s.actor.ids) :
                  MKey(s.movieID) \in maps'[objs'[actInst'[PKey(s.actor.ids[i])]].mp])]_vars

\* Movie.add has stored a movie with a director and an actor.
AddedWithDirectorAndActor ==
  /\ last.op = "Movie.add"
  /\ last.err = NoViolation
  /\ last.arg # Undef
  /\ last.key \in DOMAIN movieInst
  /\ movieInst[last.key].director # NoRef
  /\ movieInst[last.key].actor # EmptyFn

\* C21: the director setter keeps the back-reference on every assignment.
\* After assigning a director P of Director.instances the movie's ID is in P's
\* directedMovies and, when the movie had another director, no longer in that
\* one's; after assigning an empty value the movie has no director, its ID is
\* no longer in the directedMovies of the director it had, and no other map
\* has changed.
DirectorSetterKeepsBackRef ==
  [][\A k \in MovieKeys, p \in DirectorInputs :
       (MKey(k) \in DOMAIN movieInst /\ MovieSetDirector(k, p)) =>
         LET old == movieInst[k].director
             oldMap == IF old = NoRef THEN NoRef ELSE objs[old].mp
         IN /\ (Truthy(p) /\ PKey(p) \in DOMAIN dirInst) =>
                 LET new == dirInst[PKey(p)]
                 IN /\ last'.err = NoViolation
                    /\ movieInst'[k].director = new
                    /\ k \in maps'[objs'[new].mp]
                    /\ (oldMap \in DOMAIN maps' /\ oldMap # objs[new].mp)
                         => k \notin maps'[oldMap]
            /\ Falsy(p) =>
                 /\ last'.err = NoViolation
                 /\ movieInst'[k].director = NoRef
                 /\ oldMap \in DOMAIN maps' => k \notin maps'[oldMap]
                 /\ \A a \in DOMAIN maps' \ {oldMap} : maps'[a] = maps[a]]_vars

\* The setter has given a movie that had a director another director.
DirectorReassigned ==
  /\ last.op = "set director"
  /\ last.err = NoViolation
  /\ "director" \in last.upd
  /\ movieInst[last.key].director # NoRef
  /\ last.key \notin maps[objs[dirInst[1]].mp]

\* C22: when Movie.destroy(id) is followed by Movie.retrieveAll(), the
\* "movies" store having been written before, Movie.instances holds no movie
\* with that id afterwards.
DestroyedMovieStaysAway ==
  [][(/\ last.op = "Movie.destroy"
      /\ moviesStore.set
      /\ last'.op = "Movie.retrieveAll")
       => (\/ last.key \notin DOMAIN movieInst'
           \/ movieInst'[last.key].isNull)]_vars

\* C23: after a Movie.update that supplies an actor set and succeeds, the
\* actors of Actor.instances that have the movie's ID in their actedInMovies
\* are exactly the actors of the new set: an actor of the old set that is not
\* in the new one has lost the ID.
UpdateReplacesActorBackRefs ==
  [][\A s \in AssocUpdateSlots :
       (/\ MKey(s.movieID) \in DOMAIN movieInst
        /\ s.actor.t # "undefined"
        /\ MovieUpdate(s)
        /\ last'.err = NoViolation)
         => \A a \in DOMAIN actInst' :
              (MKey(s.movieID) \in maps'[objs'[actInst'[a]].mp])
                <=> (\E i \in 1..Len(s.actor.ids) : PKey(s.actor.ids[i]) = a)]_vars

\* The actor set of the slots s has an element that is the ID of no actor of
\* Actor.instances, and its director, if any, is one of Director.instances.
ActorUnresolved(s) ==
  /\ s.actor.t # "undefined"
  /\ \E i \in 1..Len(s.actor.ids) : PKey(s.actor.ids[i]) \notin DOMAIN actInst
  /\ Falsy(s.director) \/ PKey(s.director) \in DOMAIN dirInst

\* C24: an actor set with an element that resolves to no actor is refused, by
\* Movie.add as by Movie.update, with a ReferentialIntegrity violation, and no
\* actor's actedInMovies is modified.
UnresolvedActorRefused ==
  [][/\ \A s \in AssocAddSlots :
          (MKey(s.movieID) \notin DOMAIN movieInst /\ ActorUnresolved(s) /\ MovieAdd(s))
            => (/\ last'.err = RefIntegrity
                /\ \A a \in DOMAIN actInst :
                     maps'[objs[actInst[a]].mp] = maps[objs[actInst[a]].mp])
     /\ \A s \in AssocUpdateSlots :
          (MKey(s.movieID) \in DOMAIN movieInst /\ ActorUnresolved(s) /\ MovieUpdate(s))
            => (/\ last'.err = RefIntegrity
                /\ \A a \in DOMAIN actInst :
                     maps'[objs[actInst[a]].mp] = maps[objs[actInst[a]].mp])]_vars

\* C25: from empty collections and an empty store, after every sequence of
\* Movie.add, Movie.update, Movie.destroy, Movie.saveAll and Movie.retrieveAll
\* every entry of Movie.instances under a key k is a movie whose movieID is k,
\* and a Movie.update leaves the movieID of its movie as it was.
MovieIDIsTheKey ==
  [][/\ \A k \in DOMAIN movieInst' :
          /\ ~movieInst'[k].isNull
          /\ MKey(movieInst'[k].movieID) = k
     /\ (last'.op = "Movie.update" /\ last'.key \in DOMAIN movieInst)
          => (/\ last'.key \in DOMAIN movieInst'
              /\ movieInst'[last'.key].movieID = movieInst[last'.key].movieID)]_vars

\* C26: Movie.retrieveAll is idempotent: a second call right after a first,
\* the store unchanged between them, leaves Movie.instances exactly as the
\* first call left it.
RetrieveAllIdempotent ==
  [][(/\ last.op = "Movie.retrieveAll"
      /\ last'.op = "Movie.retrieveAll"
      /\ moviesStore' = moviesStore)
       => movieInst' = movieInst]_vars

\* C27: after every sequence of Person.destroy, Director.destroy and Movie
\* operations, the director of every movie of Movie.instances is a key of
\* Person.instances or of Director.instances, and every actor of the movie is a
\* key of Person.instances or of Actor.instances: no movie references a
\* destroyed person.
MoviesReferenceLivingPeople ==
  \A k \in DOMAIN movieInst :
    ~movieInst[k].isNull =>
      /\ movieInst[k].director # NoRef =>
           objs[movieInst[k].director].personId \in DOMAIN personInst \cup DOMAIN dirInst
      /\ \A a \in Rng(movieInst[k].actor) :
           objs[a].personId \in DOMAIN personInst \cup DOMAIN actInst

\* C28: after every sequence of Director.add, Person.add and
\* checkPersonIdAsId calls, an ID is a key of Director.instances only if it is
\* a key of Person.instances that maps to the same object.
DirectorsAreInPersonInstances ==
  \A k \in DOMAIN dirInst :
    /\ k \in DOMAIN personInst
    /\ personInst[k] = dirInst[k]

\* C29: Director.destroy(id) for an id of Director.instances completes without
\* an exception and removes id from Director.instances, whatever
\* Movie.instances holds, a movie without a director included.
DirectorDestroyCompletes ==
  [][(last'.op = "Director.destroy" /\ PKey(last'.arg) \in DOMAIN dirInst)
       => (/\ last'.err = NoViolation
           /\ PKey(last'.arg) \notin DOMAIN dirInst')]_vars

\* C30: Movie.update with the empty string as category on a stored movie that
\* has no category raises no frozen-value violation, and a new title supplied
\* alone with it is assigned to the movie.
EmptyCategoryOnUncategorized ==
  [][\A s \in FieldUpdateSlots :
       (/\ MKey(s.movieID) \in DOMAIN movieInst
        /\ ~movieInst[MKey(s.movieID)].isNull
        /\ movieInst[MKey(s.movieID)].category = Undef
        /\ s.category = Blank(0)
        /\ MovieUpdate(s))
       => (/\ last'.err # Frozen
           /\ (/\ s.title = Text(2)
               /\ s.releaseDate = Undef
               /\ s.director = Undef
               /\ s.episodeNo = Undef
               /\ s.about = Undef)
                => movieInst'[MKey(s.movieID)].title = Text(2))]_vars
====
